---- MODULE Spec2Model ----
(***************************************************************************)
(* State-machine model of the invoice pipeline of src/邮件发票.py:         *)
(* is_russian_text, is_russian_pdf, extract_amount, extract_vendor and     *)
(* process_eml_files.                                                      *)
(*                                                                         *)
(* Texts are sequences of Unicode code points (32 = space, 10 = line feed, *)
(* 44 = comma, 48..57 = digits, 1040..1103 with 1025 and 1105 = the        *)
(* Russian alphabet).  A file's bytes are a sequence of decoded units: a   *)
(* code point, or -1 for a byte sequence that is not valid UTF-8.          *)
(* A float read from a matched amount is held exactly, in hundredths.      *)
(***************************************************************************)
EXTENDS Integers, Sequences, FiniteSets, TLC

VARIABLES
    pc,             \* position of the running call
    text,           \* argument of the text function under call
    ret,            \* its return value
    via,            \* source line of the return statement that produced ret
    folder_exists,  \* os.path.exists(folder_path)
    listing,        \* os.listdir(folder_path), in iteration order
    fidx,           \* index in listing of the entry being iterated
    parts_left,     \* parts of the last msg.walk() not yet iterated
    part,           \* the part being iterated
    staged,         \* files of extracted_pdfs: set of [name, bytes]
    pdf_data,       \* the record list
    errors,         \* "Error processing ..." lines printed: set of [eml, at]
    vendor_summary, \* groupby result: set of [vendor, total]
    report,         \* the Excel file has been written
    outcome         \* the final line printed

vars == << pc, text, ret, via, folder_exists, listing, fidx, parts_left, part,
           staged, pdf_data, errors, vendor_summary, report, outcome >>

funcVars == << text, ret, via >>
runVars == << folder_exists, listing, fidx, parts_left, part, staged, pdf_data,
              errors, vendor_summary, report, outcome >>

\* the absent amount (every amount read from a text is >= 0)
None == -1

(***************************************************************************)
(* Bounds of the enumerated inputs.                                        *)
(***************************************************************************)
MaxLenR == 5      \* length of the texts given to is_russian_text
MaxLenA == 5      \* length of the texts given to extract_amount
MaxTokV == 5      \* tokens of the texts given to extract_vendor
MaxFiles == 2     \* entries of the input folder
MaxParts == 2     \* parts of one message
MaxRecs == 3      \* records given to the aggregation alone

(***************************************************************************)
(* Strings.                                                                *)
(***************************************************************************)
RECURSIVE SeqsUpTo(_, _)
SeqsUpTo(S, n) ==
    IF n = 0 THEN {<< >>}
    ELSE LET shorter == SeqsUpTo(S, n - 1)
         IN  shorter \cup {Append(s, c) : s \in {t \in shorter : Len(t) = n - 1}, c \in S}

RECURSIVE Flatten(_)
Flatten(ss) == IF ss = << >> THEN << >> ELSE Head(ss) \o Flatten(Tail(ss))

Max(S) == CHOOSE x \in S : \A y \in S : y <= x
Min(S) == CHOOSE x \in S : \A y \in S : x <= y

\* str.isspace / the regex class \s, on the code points below U+0100
WhiteSpace == {9, 10, 11, 12, 13, 28, 29, 30, 31, 32, 133, 160}
IsDigit(c) == c \in 48..57
\* str.isupper / str.islower of one character: ASCII and the Cyrillic block
IsUpperCh(c) == c \in (65..90) \cup (1024..1071)
IsLowerCh(c) == c \in (97..122) \cup (1072..1119)

RECURSIVE lstrip(_)
lstrip(s) == IF s # << >> /\ Head(s) \in WhiteSpace THEN lstrip(Tail(s)) ELSE s

RECURSIVE rstrip(_)
rstrip(s) ==
    IF s # << >> /\ s[Len(s)] \in WhiteSpace THEN rstrip(SubSeq(s, 1, Len(s) - 1)) ELSE s

strip(s) == rstrip(lstrip(s))

\* str.lower on ASCII letters
lower(s) == [i \in DOMAIN s |-> IF s[i] \in 65..90 THEN s[i] + 32 ELSE s[i]]

endswith(s, suffix) ==
    /\ Len(s) >= Len(suffix)
    /\ SubSeq(s, Len(s) - Len(suffix) + 1, Len(s)) = suffix

\* str.isupper: at least one cased character and no lower-case one
isupper(s) ==
    /\ \E i \in DOMAIN s : IsUpperCh(s[i])
    /\ \A i \in DOMAIN s : ~IsLowerCh(s[i])

\* bytes.decode('utf-8', errors='ignore'): undecodable units are dropped
decode(bytes) == SelectSeq(bytes, LAMBDA u : u >= 0)

(***************************************************************************)
(* is_russian_text                                                         *)
(***************************************************************************)
russian_chars == (1072..1103) \cup {1105} \cup (1040..1071) \cup {1025}

RECURSIVE CountIn(_, _)
CountIn(s, S) ==
    IF s = << >> THEN 0
    ELSE (IF Head(s) \in S THEN 1 ELSE 0) + CountIn(Tail(s), S)

\* the division's outcome against 0.3: r / t > 0.3 exactly when 10 r > 3 t
\* (the quotient of two small integers rounds to the double of 0.3 only when
\* it equals 3/10)
RatioExceeds(russian_count, total_count) == 10 * russian_count > 3 * total_count

\* faulty variant: only the characters other than whitespace are counted
is_russian_text_NonSpaceTotal(t) ==
    IF t = << >> THEN FALSE
    ELSE LET russian_count == CountIn(t, russian_chars)
             total_count == Len(SelectSeq(t, LAMBDA c : c \notin WhiteSpace))
         IN  IF total_count = 0 THEN FALSE
             ELSE RatioExceeds(russian_count, total_count)

is_russian_text(t) ==
    IF t = << >> THEN FALSE
    ELSE LET russian_count == CountIn(t, russian_chars)
             total_count == Len(strip(t))
         IN  IF total_count = 0 THEN FALSE
             ELSE RatioExceeds(russian_count, total_count)

(***************************************************************************)
(* extract_amount                                                          *)
(***************************************************************************)
\* re.search found nothing (no text holds the unit -1)
NoMatch == << -1 >>
\* float() raised ValueError
ValueError == -2

IsDigitAt(t, p) == p \in DOMAIN t /\ IsDigit(t[p])

\* index of the first digit of t, 0 when there is none
FirstDigit(t) ==
    IF \E i \in DOMAIN t : IsDigit(t[i])
    THEN Min({i \in DOMAIN t : IsDigit(t[i])})
    ELSE 0

\* end (exclusive) of the digit run that starts at p
RECURSIVE DigitRunEnd(_, _)
DigitRunEnd(t, p) == IF IsDigitAt(t, p) THEN DigitRunEnd(t, p + 1) ELSE p

ThreeDigitsAt(t, p) == IsDigitAt(t, p) /\ IsDigitAt(t, p + 1) /\ IsDigitAt(t, p + 2)

\* (?:\s?\d{3})* from p, greedy: end (exclusive) of the groups
RECURSIVE GroupsEnd(_, _)
GroupsEnd(t, p) ==
    IF p \in DOMAIN t /\ t[p] \in WhiteSpace /\ ThreeDigitsAt(t, p + 1)
    THEN GroupsEnd(t, p + 4)
    ELSE IF ThreeDigitsAt(t, p) THEN GroupsEnd(t, p + 3)
    ELSE p

\* (?:,\d{2})? from p: end (exclusive)
FractionEnd(t, p) ==
    IF p \in DOMAIN t /\ t[p] = 44 /\ IsDigitAt(t, p + 1) /\ IsDigitAt(t, p + 2)
    THEN p + 3
    ELSE p

\* re.search(r'(\d{1,3}(?:\s?\d{3})*(?:,\d{2})?)', t).group(1)
pattern_grouped(t) ==
    LET i == FirstDigit(t)
        lead == IF DigitRunEnd(t, i) - i > 3 THEN i + 3 ELSE DigitRunEnd(t, i)
    IN  IF i = 0 THEN NoMatch
        ELSE SubSeq(t, i, FractionEnd(t, GroupsEnd(t, lead)) - 1)

\* re.search(r'(\d+(?:,\d{2})?)', t).group(1)
pattern_decimal(t) ==
    LET i == FirstDigit(t)
    IN  IF i = 0 THEN NoMatch
        ELSE SubSeq(t, i, FractionEnd(t, DigitRunEnd(t, i)) - 1)

\* re.search(r'(\d+)', t).group(1)
pattern_integer(t) ==
    LET i == FirstDigit(t)
    IN  IF i = 0 THEN NoMatch ELSE SubSeq(t, i, DigitRunEnd(t, i) - 1)

patterns(t) == << pattern_grouped(t), pattern_decimal(t), pattern_integer(t) >>

\* .replace(' ', '').replace(',', '.')
amount_str(m) ==
    LET nospace == SelectSeq(m, LAMBDA c : c # 32)
    IN  [i \in DOMAIN nospace |-> IF nospace[i] = 44 THEN 46 ELSE nospace[i]]

RECURSIVE DigitsValue(_)
DigitsValue(s) ==
    IF s = << >> THEN 0
    ELSE 10 * DigitsValue(SubSeq(s, 1, Len(s) - 1)) + (s[Len(s)] - 48)

AllDigits(s) == s # << >> /\ \A i \in DOMAIN s : IsDigit(s[i])

\* float(s) for the strings amount_str produces: digits, at most one point
\* followed by digits; anything else (a tab or line feed left inside the
\* number) raises ValueError.  The value is returned in hundredths.
float(s) ==
    LET dots == {i \in DOMAIN s : s[i] = 46}
    IN  IF dots = {} THEN
            IF AllDigits(s) THEN 100 * DigitsValue(s) ELSE ValueError
        ELSE IF Cardinality(dots) = 1 THEN
            LET d == CHOOSE i \in dots : TRUE
                whole == SubSeq(s, 1, d - 1)
                frac == SubSeq(s, d + 1, Len(s))
            IN  IF AllDigits(whole) /\ AllDigits(frac) /\ Len(frac) <= 2
                THEN 100 * DigitsValue(whole)
                     + (IF Len(frac) = 1 THEN 10 ELSE 1) * DigitsValue(frac)
                ELSE ValueError
        ELSE ValueError

\* the loop over patterns from index k on: the first match that parses
RECURSIVE amount_from(_, _)
amount_from(t, k) ==
    IF k > Len(patterns(t)) THEN None
    ELSE LET m == patterns(t)[k]
         IN  IF m # NoMatch /\ float(amount_str(m)) # ValueError
             THEN float(amount_str(m))
             ELSE amount_from(t, k + 1)

extract_amount(t) == amount_from(t, 1)

(***************************************************************************)
(* extract_vendor                                                          *)
(***************************************************************************)
OOO == << 1054, 1054, 1054 >>
ZAO == << 1047, 1040, 1054 >>
PAO == << 1055, 1040, 1054 >>
IP == << 1048, 1055 >>
company_patterns == << OOO, ZAO, PAO, IP >>

\* "Неизвестный поставщик"
UnknownVendor ==
    << 1053, 1077, 1080, 1079, 1074, 1077, 1089, 1090, 1085, 1099, 1081, 32,
       1087, 1086, 1089, 1090, 1072, 1074, 1097, 1080, 1082 >>

StartsAt(t, i, w) == i + Len(w) - 1 <= Len(t) /\ SubSeq(t, i, i + Len(w) - 1) = w

\* end (exclusive) of the whitespace run that starts at p
RECURSIVE SpaceRunEnd(_, _)
SpaceRunEnd(t, p) ==
    IF p \in DOMAIN t /\ t[p] \in WhiteSpace THEN SpaceRunEnd(t, p + 1) ELSE p

\* end (inclusive) of the characters other than line feed from p on
RECURSIVE LineEnd(_, _)
LineEnd(t, p) == IF p \in DOMAIN t /\ t[p] # 10 THEN LineEnd(t, p + 1) ELSE p - 1

\* where group 1 of  marker\s+([^\n]+)  starts when the marker is at i: \s+
\* takes as much whitespace as leaves one character other than line feed,
\* giving back whitespace when it has taken too much; 0 when there is no match
GroupStart(t, i, marker) ==
    LET from == i + Len(marker)
        starts == {p \in (from + 1)..SpaceRunEnd(t, from) : p \in DOMAIN t /\ t[p] # 10}
    IN  IF StartsAt(t, i, marker) /\ starts # {} THEN Max(starts) ELSE 0

\* re.search(marker + r'\s+([^\n]+)', t).group(1): the leftmost match
company_search(t, marker) ==
    LET at == {i \in DOMAIN t : GroupStart(t, i, marker) # 0}
    IN  IF at = {} THEN NoMatch
        ELSE LET p == GroupStart(t, Min(at), marker)
             IN  SubSeq(t, p, LineEnd(t, p))

\* text.split('\n')
RECURSIVE split_lines(_)
split_lines(t) ==
    LET e == LineEnd(t, 1)
    IN  IF e = Len(t) THEN << t >>
        ELSE << SubSeq(t, 1, e) >> \o split_lines(SubSeq(t, e + 2, Len(t)))

line_qualifies(line) ==
    \/ isupper(strip(line))
    \/ (strip(line) # << >> /\ IsUpperCh(strip(line)[1]))

marker_hits(t) ==
    {k \in DOMAIN company_patterns : company_search(t, company_patterns[k]) # NoMatch}

good_lines(t) == {k \in DOMAIN split_lines(t) : line_qualifies(split_lines(t)[k])}

by_marker(t) ==
    [value |-> strip(company_search(t, company_patterns[Min(marker_hits(t))])), line |-> 78]
by_line(t) == [value |-> strip(split_lines(t)[Min(good_lines(t))]), line |-> 85]
by_sentinel == [value |-> UnknownVendor, line |-> 87]

\* faulty variant: the line heuristic is tried before the markers
vendor_result_LinesFirst(t) ==
    IF good_lines(t) # {} THEN by_line(t)
    ELSE IF marker_hits(t) # {} THEN by_marker(t)
    ELSE by_sentinel

\* [value, line]: the returned string and the return statement that gave it
vendor_result(t) ==
    IF marker_hits(t) # {} THEN by_marker(t)
    ELSE IF good_lines(t) # {} THEN by_line(t)
    ELSE by_sentinel

extract_vendor(t) == vendor_result(t).value

(***************************************************************************)
(* The three text functions, each called once on an enumerated text.       *)
(***************************************************************************)
NoPart == [multipart |-> FALSE, disposition |-> "none", name |-> << >>, bytes |-> << >>]

RunIdle ==
    /\ folder_exists = FALSE
    /\ listing = << >>
    /\ fidx = 0
    /\ parts_left = 0
    /\ part = NoPart
    /\ staged = {}
    /\ pdf_data = << >>
    /\ errors = {}
    /\ vendor_summary = {}
    /\ report = FALSE
    /\ outcome = ""

\* "ООО Рога и Копыта\nСумма: 12 345,67 руб."
ScenarioInvoice ==
    << 1054, 1054, 1054, 32, 1056, 1086, 1075, 1072, 32, 1080, 32, 1050, 1086,
       1087, 1099, 1090, 1072, 10, 1057, 1091, 1084, 1084, 1072, 58, 32, 49, 50,
       32, 51, 52, 53, 44, 54, 55, 32, 1088, 1091, 1073, 46 >>

\* "Рога и Копыта"
ScenarioVendor ==
    << 1056, 1086, 1075, 1072, 32, 1080, 32, 1050, 1086, 1087, 1099, 1090, 1072 >>

\* а, Ё, x, space
RussianAlphabet == {1072, 1025, 120, 32}
RussianTexts ==
    SeqsUpTo(RussianAlphabet, MaxLenR)
        \cup { << 1072, 32, 120, 120, 120, 32, 120, 120, 120, 32, 120, 120, 120 >>,  \* 1 of 10
               << 1072, 1073, 1025, 120, 120, 120, 120, 120, 120, 120 >>,           \* 3 of 10
               << 1072, 1073, 1025, 1103, 120, 120, 120, 120, 120, 120 >>,          \* 4 of 10
               << 10, 9, 32 >>,
               ScenarioInvoice }

\* 1, 2, space, line feed, comma, x
AmountAlphabet == {49, 50, 32, 10, 44, 120}
AmountTexts ==
    SeqsUpTo(AmountAlphabet, MaxLenA)
        \cup { ScenarioInvoice,
               << 49, 50, 51, 32, 52, 53, 54, 44, 55, 56 >>,     \* 123 456,78
               << 49, 50, 51, 52, 53, 54, 44, 55, 56 >>,         \* 123456,78
               << 49, 50, 51, 52, 53, 54 >>,                     \* 123456
               << 49, 50, 51, 52, 53, 54, 55 >>,                 \* 1234567
               << 49, 9, 50, 51, 52 >> }                         \* 1<tab>234

\* ООО, ИП, space, line feed, x, Б
VendorTokens == {OOO, IP, << 32 >>, << 10 >>, << 120 >>, << 1041 >>}
VendorTexts ==
    {Flatten(ts) : ts \in SeqsUpTo(VendorTokens, MaxTokV)}
        \cup { ScenarioInvoice,
               PAO \o << 32, 120 >>,
               IP \o << 32, 120, 10 >> \o ZAO \o << 32, 1041 >>,
               << 1041, 10 >> \o PAO \o << 9, 120, 32 >> }

InitRussian ==
    /\ pc = "is_russian_text" /\ text \in RussianTexts /\ ret = None /\ via = 0
    /\ RunIdle

InitAmount ==
    /\ pc = "extract_amount" /\ text \in AmountTexts /\ ret = None /\ via = 0
    /\ RunIdle

InitVendor ==
    /\ pc = "extract_vendor" /\ text \in VendorTexts /\ ret = None /\ via = 0
    /\ RunIdle

call_is_russian_text ==
    /\ pc = "is_russian_text"
    /\ ret' = is_russian_text(text)
    /\ via' = 0
    /\ pc' = "done"
    /\ UNCHANGED << text, runVars >>

call_extract_amount ==
    /\ pc = "extract_amount"
    /\ ret' = extract_amount(text)
    /\ via' = (IF extract_amount(text) = None THEN 64 ELSE 61)
    /\ pc' = "done"
    /\ UNCHANGED << text, runVars >>

call_extract_vendor ==
    /\ pc = "extract_vendor"
    /\ ret' = extract_vendor(text)
    /\ via' = vendor_result(text).line
    /\ pc' = "done"
    /\ UNCHANGED << text, runVars >>

SpecRussian == InitRussian /\ [][call_is_russian_text]_vars
SpecAmount == InitAmount /\ [][call_extract_amount]_vars
SpecVendor == InitVendor /\ [][call_extract_vendor]_vars

(***************************************************************************)
(* C4.  Checked under SpecRussian.                                         *)
(***************************************************************************)
RussianLetters(t) == Cardinality({i \in DOMAIN t : t[i] \in russian_chars})
NonSpace(t) == {i \in DOMAIN t : t[i] \notin WhiteSpace}
TrimmedLength(t) == IF NonSpace(t) = {} THEN 0 ELSE Max(NonSpace(t)) - Min(NonSpace(t)) + 1

\* C4 as stated: is_russian_text(T) is true exactly when T has a character
\* other than whitespace and its Russian letters are more than 0.30 of its
\* characters other than whitespace (whitespace inside T not counted).
C4_RatioOverNonWhitespace ==
    pc = "done" =>
        (ret <=> /\ NonSpace(text) # {}
                 /\ 10 * RussianLetters(text) > 3 * Cardinality(NonSpace(text)))

\* C4 as amended: is_russian_text(T) is true exactly when T is not empty after
\* trimming and its Russian letters are more than 0.30 of the length of the
\* trimmed text, whitespace inside the text counted in that length; a ratio
\* of 0.10 over the characters other than whitespace gives false.
C4_RatioOverTrimmedLength ==
    pc = "done" =>
        /\ ret <=> /\ TrimmedLength(text) > 0
                   /\ 10 * RussianLetters(text) > 3 * TrimmedLength(text)
        /\ (NonSpace(text) # {} /\ 10 * RussianLetters(text) = Cardinality(NonSpace(text)))
               => ret = FALSE

\* a text over 0.30 on its characters other than whitespace, classified false
\* because of the whitespace inside it
C4_Witness ==
    /\ pc = "done"
    /\ ret = FALSE
    /\ 10 * RussianLetters(text) > 3 * Cardinality(NonSpace(text))
    /\ TrimmedLength(text) > Cardinality(NonSpace(text))

(***************************************************************************)
(* C5.  Checked under SpecAmount.                                          *)
(***************************************************************************)
\* ( \d{3})* with single spaces from p: end (exclusive)
RECURSIVE SpacedGroupsEnd(_, _)
SpacedGroupsEnd(t, p) ==
    IF p \in DOMAIN t /\ t[p] = 32 /\ ThreeDigitsAt(t, p + 1) /\ ~IsDigitAt(t, p + 4)
    THEN SpacedGroupsEnd(t, p + 4)
    ELSE p

\* the first number of t read as grouped thousands: one to three digits,
\* then groups of a space and three digits, then an optional ,dd
GroupedNumberEnd(t) ==
    LET i == FirstDigit(t)
        run == DigitRunEnd(t, i)
    IN  IF run - i <= 3 THEN FractionEnd(t, SpacedGroupsEnd(t, run)) ELSE i

\* the first number of t read as plain digits of any length, then an
\* optional ,dd
PlainNumberEnd(t) == FractionEnd(t, DigitRunEnd(t, FirstDigit(t)))

\* the whole first number of t: the longer of the two readings
FirstNumber(t) ==
    SubSeq(t, FirstDigit(t), Max({GroupedNumberEnd(t), PlainNumberEnd(t)}) - 1)

\* its value in hundredths: spaces removed, the comma read as decimal point
NumberValue(n) ==
    LET digits == SelectSeq(n, LAMBDA c : IsDigit(c))
    IN  IF \E i \in DOMAIN n : n[i] = 44 THEN DigitsValue(digits) ELSE 100 * DigitsValue(digits)

\* C5 as stated: for every text that holds a number, extract_amount returns
\* the value of the whole first number (grouped thousands with single spaces,
\* or plain digits of any length, each with an optional ,dd).
C5_AmountIsWholeFirstNumber ==
    (pc = "done" /\ FirstDigit(text) # 0) => ret = NumberValue(FirstNumber(text))

(***************************************************************************)
(* C3 and C7.  Checked under SpecVendor.                                   *)
(***************************************************************************)
\* C3 as stated: extract_vendor returns a string that is not empty, for
\* every text.
C3_VendorNeverEmpty == pc = "done" => ret # << >>

\* the positions after marker m at i and one or more whitespace characters
\* that hold a character other than line feed
AfterMarker(t, m, i) ==
    IF StartsAt(t, i, m)
    THEN {p \in (i + Len(m) + 1)..SpaceRunEnd(t, i + Len(m)) : p \in DOMAIN t /\ t[p] # 10}
    ELSE {}

\* t holds a legal-entity marker followed by whitespace and a name
MarkerWithName(t) ==
    \E k \in DOMAIN company_patterns : \E i \in DOMAIN t :
        \E p \in AfterMarker(t, company_patterns[k], i) : t[p] \notin WhiteSpace

\* v is the trimmed rest of a line that follows a marker and whitespace
CapturedAfterMarker(t, v) ==
    \E k \in DOMAIN company_patterns : \E i \in DOMAIN t :
        \E p \in AfterMarker(t, company_patterns[k], i) :
            v = strip(SubSeq(t, p, LineEnd(t, p)))

\* C7: when the text holds a legal-entity marker followed by whitespace and a
\* name, extract_vendor returns through the marker strategy, and what it
\* returns is the trimmed text captured after a marker, whatever lines come
\* before; the line heuristic and the sentinel are used only when no marker
\* pattern matches.  "ООО Рога и Копыта\nСумма: 12 345,67 руб." gives
\* "Рога и Копыта".
C7_MarkerBeatsLineHeuristic ==
    pc = "done" =>
        /\ MarkerWithName(text) => (via = 78 /\ CapturedAfterMarker(text, ret))
        /\ via \in {85, 87} => (~MarkerWithName(text) /\ marker_hits(text) = {})
        /\ text = ScenarioInvoice => ret = ScenarioVendor

\* the first line starts upper-case and holds no marker, a marker with a
\* name follows on a later line, and the vendor is the name
C7_Witness ==
    /\ pc = "done"
    /\ via = 78
    /\ Len(split_lines(text)) >= 2
    /\ line_qualifies(split_lines(text)[1])
    /\ ~MarkerWithName(split_lines(text)[1] \o << 10 >>)
    /\ \A k \in DOMAIN company_patterns, i \in DOMAIN split_lines(text)[1] :
          ~StartsAt(split_lines(text)[1], i, company_patterns[k])
    /\ MarkerWithName(text)
    /\ ret # << >>
    /\ ret # strip(split_lines(text)[1])

(***************************************************************************)
(* process_eml_files                                                       *)
(***************************************************************************)
\* "m.EML", "n.eml", "o.txt"
FolderNames == { << 109, 46, 69, 77, 76 >>, << 110, 46, 101, 109, 108 >>,
                 << 111, 46, 116, 120, 116 >> }
DotEml == << 46, 101, 109, 108 >>
DotPdf == << 46, 112, 100, 102 >>

\* the listings of a folder: its names in any order, none twice
Listings ==
    {l \in SeqsUpTo(FolderNames, MaxFiles) : \A i, j \in DOMAIN l : l[i] = l[j] => i = j}

\* undecodable byte, then "ООО аб\n100"
RussianPdf == << -1, 1054, 1054, 1054, 32, 1072, 1073, 10, 49, 48, 48 >>
\* "%PDF-1.4" and two undecodable bytes
BinaryPdf == << 37, 80, 68, 70, 45, 49, 46, 52, -1, -1 >>
\* "ИП вг"
RussianNote == << 1048, 1055, 32, 1074, 1075 >>
Payloads == {RussianPdf, RussianNote, BinaryPdf}

\* part.get_filename(): none (the empty sequence), "a.PDF", "a.txt", "apdf"
PartNames == { << >>, << 97, 46, 80, 68, 70 >>, << 97, 46, 116, 120, 116 >>,
               << 97, 112, 100, 102 >> }
Dispositions == {"none", "attachment", "inline"}

Parts ==
    [multipart : BOOLEAN, disposition : Dispositions, name : PartNames, bytes : Payloads]

Init ==
    /\ pc = "start"
    /\ text = << >> /\ ret = None /\ via = 0
    /\ folder_exists \in BOOLEAN
    /\ listing \in Listings
    /\ folder_exists = FALSE => listing = << >>
    /\ fidx = 0
    /\ parts_left = 0
    /\ part = NoPart
    /\ staged = {}
    /\ pdf_data = << >>
    /\ errors = {}
    /\ vendor_summary = {}
    /\ report = FALSE
    /\ outcome = ""

eml_path == listing[fidx]

\* open(pdf_path, 'wb') ... write: the file of that name is replaced
write_file(files, name, bytes) ==
    {f \in files : f.name # name} \cup {[name |-> name, bytes |-> bytes]}

\* open(pdf_path, 'rb') ... read
read_file(files, name) == (CHOOSE f \in files : f.name = name).bytes

\* faulty variant: the filename is compared as written
is_pdf_attachment_CaseSensitive(p) ==
    /\ ~p.multipart
    /\ p.disposition # "none"
    /\ p.name # << >>
    /\ endswith(p.name, DotPdf)

\* lines 112-118: the part is a PDF attachment to stage
is_pdf_attachment(p) ==
    /\ ~p.multipart
    /\ p.disposition # "none"
    /\ p.name # << >>
    /\ endswith(lower(p.name), DotPdf)

\* faulty variant: every file that can be read is taken for Russian
is_russian_pdf_AnyReadable(files, name, read_ok) == read_ok

\* is_russian_pdf, the read having succeeded or raised
is_russian_pdf(files, name, read_ok) ==
    IF read_ok THEN is_russian_text(decode(read_file(files, name))) ELSE FALSE

\* lines 136-144
build_record(t, name, eml) ==
    [vendor |-> extract_vendor(t), amount |-> extract_amount(t), name |-> name,
     eml |-> eml, src |-> t]

\* faulty variant: the exception is not caught and ends the run
caught_Fatal(eml, at) ==
    /\ errors' = errors \cup {[eml |-> eml, at |-> at]}
    /\ pc' = "done"

\* lines 145-146: the exception raised at `at` is printed and the loop over
\* the files goes on
caught(eml, at) ==
    /\ errors' = errors \cup {[eml |-> eml, at |-> at]}
    /\ pc' = "files"

\* lines 91-93
folder_missing ==
    /\ pc = "start"
    /\ ~folder_exists
    /\ outcome' = "no_folder"
    /\ pc' = "done"
    /\ UNCHANGED << funcVars, folder_exists, listing, fidx, parts_left, part, staged,
                    pdf_data, errors, vendor_summary, report >>

\* lines 96-99
folder_found ==
    /\ pc = "start"
    /\ folder_exists
    /\ pdf_data' = << >>
    /\ pc' = "files"
    /\ UNCHANGED << funcVars, folder_exists, listing, fidx, parts_left, part, staged,
                    errors, vendor_summary, report, outcome >>

\* lines 102-103: an entry that is not an .eml file
skip_file ==
    /\ pc = "files"
    /\ fidx < Len(listing)
    /\ ~endswith(lower(listing[fidx + 1]), DotEml)
    /\ fidx' = fidx + 1
    /\ UNCHANGED << pc, funcVars, folder_exists, listing, parts_left, part, staged,
                    pdf_data, errors, vendor_summary, report, outcome >>

\* lines 104-108: the message is opened and parsed; msg.walk() yields the
\* message itself first, so there is at least one part
parse_message ==
    /\ pc = "files"
    /\ fidx < Len(listing)
    /\ endswith(lower(listing[fidx + 1]), DotEml)
    /\ fidx' = fidx + 1
    /\ \E n \in 1..MaxParts : parts_left' = n
    /\ pc' = "walk"
    /\ UNCHANGED << funcVars, folder_exists, listing, part, staged, pdf_data, errors,
                    vendor_summary, report, outcome >>

\* lines 107-108 raise, line 146
parse_fails ==
    /\ pc = "files"
    /\ fidx < Len(listing)
    /\ endswith(lower(listing[fidx + 1]), DotEml)
    /\ fidx' = fidx + 1
    /\ caught(listing[fidx + 1], "parse")
    /\ UNCHANGED << funcVars, folder_exists, listing, parts_left, part, staged,
                    pdf_data, vendor_summary, report, outcome >>

\* line 111: the next part of the walk
next_part ==
    /\ pc = "walk"
    /\ parts_left > 0
    /\ parts_left' = parts_left - 1
    /\ part' \in Parts
    /\ pc' = "part"
    /\ UNCHANGED << funcVars, folder_exists, listing, fidx, staged, pdf_data, errors,
                    vendor_summary, report, outcome >>

\* line 111: the walk is exhausted
end_of_message ==
    /\ pc = "walk"
    /\ parts_left = 0
    /\ pc' = "files"
    /\ UNCHANGED << funcVars, folder_exists, listing, fidx, parts_left, part, staged,
                    pdf_data, errors, vendor_summary, report, outcome >>

\* lines 112-118: continue, or the filename test fails
skip_part ==
    /\ pc = "part"
    /\ ~is_pdf_attachment(part)
    /\ part' = NoPart
    /\ pc' = "walk"
    /\ UNCHANGED << funcVars, folder_exists, listing, fidx, parts_left, staged, pdf_data,
                    errors, vendor_summary, report, outcome >>

\* lines 120-122
stage_part ==
    /\ pc = "part"
    /\ is_pdf_attachment(part)
    /\ staged' = write_file(staged, part.name, part.bytes)
    /\ pc' = "classify"
    /\ UNCHANGED << funcVars, folder_exists, listing, fidx, parts_left, part, pdf_data,
                    errors, vendor_summary, report, outcome >>

\* faulty variant: the failure is caught inside the walk, which goes on
stage_fails_WalkGoesOn ==
    /\ pc = "part"
    /\ is_pdf_attachment(part)
    /\ staged' \in {staged, write_file(staged, part.name, << >>)}
    /\ errors' = errors \cup {[eml |-> eml_path, at |-> "stage"]}
    /\ part' = NoPart
    /\ pc' = "walk"
    /\ UNCHANGED << funcVars, folder_exists, listing, fidx, parts_left, pdf_data,
                    vendor_summary, report, outcome >>

\* lines 121-122 raise, line 146: open failed (the folder is as it was) or
\* the write failed (the file is left truncated)
stage_fails ==
    /\ pc = "part"
    /\ is_pdf_attachment(part)
    /\ staged' \in {staged, write_file(staged, part.name, << >>)}
    /\ caught(eml_path, "stage")
    /\ part' = NoPart
    /\ UNCHANGED << funcVars, folder_exists, listing, fidx, parts_left, pdf_data,
                    vendor_summary, report, outcome >>

\* line 125, is_russian_pdf true
classify_russian ==
    /\ pc = "classify"
    /\ \E read_ok \in BOOLEAN : is_russian_pdf(staged, part.name, read_ok)
    /\ pc' = "extract"
    /\ UNCHANGED << funcVars, folder_exists, listing, fidx, parts_left, part, staged,
                    pdf_data, errors, vendor_summary, report, outcome >>

\* line 125, is_russian_pdf false
classify_other ==
    /\ pc = "classify"
    /\ \E read_ok \in BOOLEAN : ~is_russian_pdf(staged, part.name, read_ok)
    /\ part' = NoPart
    /\ pc' = "walk"
    /\ UNCHANGED << funcVars, folder_exists, listing, fidx, parts_left, staged, pdf_data,
                    errors, vendor_summary, report, outcome >>

\* lines 127-144
append_record ==
    /\ pc = "extract"
    /\ pdf_data' = Append(pdf_data,
                          build_record(decode(read_file(staged, part.name)), part.name, eml_path))
    /\ part' = NoPart
    /\ pc' = "walk"
    /\ UNCHANGED << funcVars, folder_exists, listing, fidx, parts_left, staged, errors,
                    vendor_summary, report, outcome >>

\* lines 128-129 raise, line 146
read_fails ==
    /\ pc = "extract"
    /\ caught(eml_path, "read")
    /\ part' = NoPart
    /\ UNCHANGED << funcVars, folder_exists, listing, fidx, parts_left, staged, pdf_data,
                    vendor_summary, report, outcome >>

\* line 102: the listing is exhausted
end_of_listing ==
    /\ pc = "files"
    /\ fidx = Len(listing)
    /\ pc' = "report"
    /\ UNCHANGED << funcVars, folder_exists, listing, fidx, parts_left, part, staged,
                    pdf_data, errors, vendor_summary, report, outcome >>

RECURSIVE sum_amounts_NoneCounted(_)
\* faulty variant: the absent amount enters the sum as its stored value
sum_amounts_NoneCounted(recs) ==
    IF recs = << >> THEN 0 ELSE Head(recs).amount + sum_amounts_NoneCounted(Tail(recs))

RECURSIVE sum_amounts(_)
\* Series.sum(): the absent amounts are skipped
sum_amounts(recs) ==
    IF recs = << >> THEN 0
    ELSE (IF Head(recs).amount = None THEN 0 ELSE Head(recs).amount) + sum_amounts(Tail(recs))

\* df.groupby('供应商')['金额'].sum().reset_index(): one row per vendor
groupby_sum(recs) ==
    {[vendor |-> v, total |-> sum_amounts(SelectSeq(recs, LAMBDA r : r.vendor = v))] :
        v \in {recs[i].vendor : i \in DOMAIN recs}}

\* faulty variant: the report is written whatever the list holds
has_records_Always(recs) == TRUE

\* line 149
has_records(recs) == recs # << >>

\* lines 149-181, line 180 reached
write_report ==
    /\ pc = "report"
    /\ has_records(pdf_data)
    /\ vendor_summary' = groupby_sum(pdf_data)
    /\ report' = TRUE
    /\ outcome' = "saved"
    /\ pc' = "done"
    /\ UNCHANGED << funcVars, folder_exists, listing, fidx, parts_left, part, staged,
                    pdf_data, errors >>

\* lines 149-178: add_format and set_column are calls of the xlsxwriter
\* workbook; on the openpyxl workbook of line 157 they raise, the with block
\* is left by the exception (the writer saves the file as it is closed) and
\* line 180 is not reached
format_fails ==
    /\ pc = "report"
    /\ has_records(pdf_data)
    /\ vendor_summary' = groupby_sum(pdf_data)
    /\ report' = TRUE
    /\ outcome' = "traceback"
    /\ pc' = "done"
    /\ UNCHANGED << funcVars, folder_exists, listing, fidx, parts_left, part, staged,
                    pdf_data, errors >>

\* lines 182-183
report_nothing ==
    /\ pc = "report"
    /\ ~has_records(pdf_data)
    /\ outcome' = "none_found"
    /\ pc' = "done"
    /\ UNCHANGED << funcVars, folder_exists, listing, fidx, parts_left, part, staged,
                    pdf_data, errors, vendor_summary, report >>

Next ==
    \/ folder_missing
    \/ folder_found
    \/ skip_file
    \/ parse_message
    \/ parse_fails
    \/ next_part
    \/ end_of_message
    \/ skip_part
    \/ stage_part
    \/ stage_fails
    \/ classify_russian
    \/ classify_other
    \/ append_record
    \/ read_fails
    \/ end_of_listing
    \/ write_report
    \/ format_fails
    \/ report_nothing

Spec == Init /\ [][Next]_vars

(***************************************************************************)
(* The aggregation alone, on enumerated record lists.                      *)
(***************************************************************************)
\* "ООО аб\n200", "ООО аб", "ИП вг\n100"
SummaryTexts ==
    { decode(RussianPdf), RussianNote,
      << 1054, 1054, 1054, 32, 1072, 1073, 10, 50, 48, 48 >>,
      << 1054, 1054, 1054, 32, 1072, 1073 >>,
      << 1048, 1055, 32, 1074, 1075, 10, 49, 48, 48 >> }

SummaryName == << 97, 46, 80, 68, 70 >>
SummaryEml == << 110, 46, 101, 109, 108 >>

InitSummary ==
    /\ pc = "report"
    /\ text = << >> /\ ret = None /\ via = 0
    /\ folder_exists = TRUE
    /\ listing = << SummaryEml >>
    /\ fidx = 1
    /\ parts_left = 0
    /\ part = NoPart
    /\ \E ts \in SeqsUpTo(SummaryTexts, MaxRecs) :
          /\ ts # << >>
          /\ pdf_data = [i \in DOMAIN ts |-> build_record(ts[i], SummaryName, SummaryEml)]
          /\ staged = {[name |-> SummaryName, bytes |-> ts[Len(ts)]]}
    /\ errors = {}
    /\ vendor_summary = {}
    /\ report = FALSE
    /\ outcome = ""

SpecSummary == InitSummary /\ [][write_report]_vars

(***************************************************************************)
(* C8.  Checked under SpecSummary.                                         *)
(***************************************************************************)
AmountOrZero(r) == IF r.amount = None THEN 0 ELSE r.amount

RECURSIVE SumAt(_, _)
\* the sum of the amounts of the records at the indices I, absent as 0
SumAt(recs, I) ==
    IF I = {} THEN 0
    ELSE LET i == CHOOSE j \in I : TRUE
         IN  AmountOrZero(recs[i]) + SumAt(recs, I \ {i})

RECURSIVE SumTotals(_)
SumTotals(rows) ==
    IF rows = {} THEN 0
    ELSE LET r == CHOOSE x \in rows : TRUE
         IN  r.total + SumTotals(rows \ {r})

VendorAB == << 1072, 1073 >>
VendorVG == << 1074, 1075 >>

\* C8: for a record list that is not empty, the vendor summary has exactly
\* one row per distinct vendor string, every record falls in exactly one row,
\* each row's total is the sum of that vendor's amounts with an absent amount
\* as 0, and the totals add up to the sum of all amounts; 100.00 and 200.00
\* for one vendor and an absent amount for another give 300.00 and 0.00.
C8_SummaryPartitionsRecords ==
    pc = "done" =>
        /\ \A i \in DOMAIN pdf_data :
              Cardinality({row \in vendor_summary : row.vendor = pdf_data[i].vendor}) = 1
        /\ \A row \in vendor_summary :
              /\ \E i \in DOMAIN pdf_data : pdf_data[i].vendor = row.vendor
              /\ row.total = SumAt(pdf_data, {i \in DOMAIN pdf_data : pdf_data[i].vendor = row.vendor})
        /\ SumTotals(vendor_summary) = SumAt(pdf_data, DOMAIN pdf_data)
        /\ (/\ Len(pdf_data) = 3
            /\ pdf_data[1].vendor = VendorAB /\ pdf_data[1].amount = 10000
            /\ pdf_data[2].vendor = VendorAB /\ pdf_data[2].amount = 20000
            /\ pdf_data[3].vendor = VendorVG /\ pdf_data[3].amount = None)
               => vendor_summary = {[vendor |-> VendorAB, total |-> 30000],
                                    [vendor |-> VendorVG, total |-> 0]}

\* two amounts for one vendor and an absent amount for another, summed
C8_Witness ==
    /\ pc = "done"
    /\ Len(pdf_data) = 3
    /\ vendor_summary = {[vendor |-> VendorAB, total |-> 30000],
                         [vendor |-> VendorVG, total |-> 0]}
    /\ pdf_data[3].amount = None

(***************************************************************************)
(* C1, C2, C6, C9, C10.  Checked under Spec.                               *)
(***************************************************************************)
IsPrefix(s, t) == Len(s) <= Len(t) /\ SubSeq(t, 1, Len(s)) = s

PartFile == [name |-> part.name, bytes |-> part.bytes]

\* C1: every record of pdf_data was built from a document the classifier
\* takes for Russian; an attachment reaches the extraction only when it is
\* classified Russian, and whatever its classification it has been written
\* to the staging folder before.
C1_RecordsOnlyFromRussianPdfs ==
    /\ \A i \in DOMAIN pdf_data : is_russian_text(pdf_data[i].src)
    /\ pc \in {"classify", "extract"} => PartFile \in staged
    /\ pc = "extract" => is_russian_text(decode(part.bytes))

\* the run is over with a record, and the staging folder holds a document
\* that is not Russian, from which no record was built
C1_Witness ==
    /\ pc = "done"
    /\ pdf_data # << >>
    /\ \E f \in staged :
          /\ ~is_russian_text(decode(f.bytes))
          /\ f.bytes # << >>
          /\ \A i \in DOMAIN pdf_data : pdf_data[i].src # decode(f.bytes)

\* position of a name in the listing
PlaceOf(name) == CHOOSE k \in DOMAIN listing : listing[k] = name

EndsInPdf(name) ==
    /\ Len(name) >= 4
    /\ name[Len(name) - 3] = 46
    /\ name[Len(name) - 2] \in {80, 112}
    /\ name[Len(name) - 1] \in {68, 100}
    /\ name[Len(name)] \in {70, 102}

\* the step from a part to its staging, done or failed
StagingAttempted ==
    pc = "part" /\ (pc' = "classify" \/ errors' # errors)

\* C6 as stated: a part is staged and passed on exactly when it is no
\* multipart container, its Content-Disposition is attachment, and its
\* filename ends in ".pdf" whatever the case.
C6_OnlyAttachmentDisposition ==
    [][pc = "part" =>
          (StagingAttempted <=> /\ ~part.multipart
                                /\ part.disposition = "attachment"
                                /\ EndsInPdf(part.name))]_vars

\* C6 as amended: a part is staged and passed on exactly when it is no
\* multipart container, it has a Content-Disposition header (attachment,
\* inline or any other value), and its filename ends in ".pdf" whatever the
\* case; a part with no filename or no disposition yields no attachment.
C6_AnyDisposition ==
    [][pc = "part" =>
          /\ StagingAttempted <=> /\ ~part.multipart
                                  /\ part.disposition # "none"
                                  /\ EndsInPdf(part.name)
          /\ pc' = "classify" => [name |-> part.name, bytes |-> part.bytes] \in staged']_vars

\* an inline part with a PDF filename in upper case has been staged
C6_Witness ==
    /\ pc = "classify"
    /\ part.disposition = "inline"
    /\ PartFile \in staged
    /\ ~endswith(part.name, DotPdf)

\* C9: a run over an existing folder writes the report exactly when the
\* record list is not empty; with no record it writes none and prints the
\* "none found" line, never the "saved" line; nothing is written before the
\* end, nor when the folder is missing.
C9_ReportIffRecords ==
    /\ pc # "done" => ~report
    /\ pc = "done" =>
          /\ report <=> (folder_exists /\ pdf_data # << >>)
          /\ (folder_exists /\ pdf_data = << >>) <=> outcome = "none_found"
          /\ outcome = "saved" => report

\* no record, no report, and the staging folder holds a PDF
C9_Witness ==
    /\ pc = "done"
    /\ outcome = "none_found"
    /\ ~report
    /\ staged # {}

\* C10 as stated: a failure while one PDF attachment is staged skips that
\* attachment only; the walk goes on with the remaining parts of the message.
C10_OnlyThatAttachmentSkipped ==
    [][(pc = "part" /\ errors' # errors) =>
          (pc' = "walk" /\ parts_left' = parts_left /\ fidx' = fidx)]_vars

\* C10 as amended: a failure while one PDF attachment is staged gives no
\* record for it and ends the processing of its message: the remaining parts
\* of the message are not iterated (not staged, classified or recorded), the
\* records appended so far are kept, and the loop goes on with the next file.
C10_RestOfMessageSkipped ==
    /\ [][(pc = "part" /\ errors' # errors) =>
             /\ pdf_data' = pdf_data
             /\ pc' = "files"
             /\ fidx' = fidx /\ parts_left' = parts_left]_vars
    /\ [][pc = "files" =>
             /\ pdf_data' = pdf_data /\ staged' = staged
             /\ pc' \in {"files", "walk", "report"}
             /\ pc' # "report" => fidx' = fidx + 1]_vars

\* staging failed with a part of the message still to come, and the run
\* has gone on to the next file
C10_Witness ==
    /\ pc = "files"
    /\ parts_left > 0
    /\ fidx < Len(listing)
    /\ [eml |-> listing[fidx], at |-> "stage"] \in errors

====
